---- MODULE Spec2Model ----
(***************************************************************************)
(* Model of enforce/nodes.py: the validator-node tree (BaseNode and its    *)
(* five subclasses), the validate generator, and reset.                    *)
(*                                                                         *)
(* A node is an index into the per-node state functions children,          *)
(* original_children, data_out and last_type.  The generator protocol of   *)
(* BaseNode.validate is modelled by an explicit stack of generator frames: *)
(* a frame suspends at "yield child.validate(...)" and the driver runs the *)
(* yielded child generator to its final boolean and sends it back.         *)
(***************************************************************************)
EXTENDS Integers, Sequences, FiniteSets, TLC

(***************************************************************************)
(* Data values.  Every Python value of the model is a record               *)
(*   t     : name of its runtime class, type(d).__name__                   *)
(*   v     : payload of an atom; the class named by a type value; the      *)
(*           class of the 'return' annotation of a function ("" if the     *)
(*           function has none)                                            *)
(*   items : elements of a list or tuple; the annotated parameter classes  *)
(*           of a function, in declaration order                           *)
(***************************************************************************)
Atom(t, v) == [t |-> t, v |-> v, items |-> <<>>]

\* Python's None: the initial data_out and last_type, and a legitimate datum.
None == Atom("NoneType", "None")

IntV(k) == Atom("int", ToString(k))
BoolV(b) == Atom("bool", b)
StrV(s) == Atom("str", s)
ClassV(c) == Atom("type", c)
ListV(s) == [t |-> "list", v |-> "", items |-> s]
TupleV(s) == [t |-> "tuple", v |-> "", items |-> s]
FuncV(params, ret) == [t |-> "function", v |-> ret, items |-> params]

\* type(data)
type(data) == ClassV(data.t)

\* issubclass(a, b) on the classes of the model: bool derives from int and
\* every class derives from object.
issubclass(a, b) ==
    \/ a.v = b.v
    \/ b.v = "object"
    \/ a.v = "bool" /\ b.v = "int"

\* isinstance(data, c)
isinstance(data, c) == issubclass(type(data), c)

\* isinstance(data, typing.Callable): functions and classes are callable.
callable(data) == data.t \in {"function", "type"}

\* typing.get_type_hints(data) without the 'return' entry, in dict order.
\* A class carries no annotations.
param_hints(data) == IF data.t = "function" THEN data.items ELSE <<>>

\* 'return' in typing.get_type_hints(data)
has_return_hint(data) == data.t = "function" /\ data.v # ""

(***************************************************************************)
(* Node classes and their constructor arguments.                           *)
(***************************************************************************)
NodeClasses == {"SimpleNode", "UnionNode", "TypeVarNode", "TupleNode", "CallableNode"}

\* self.strict, as each subclass passes it to BaseNode.__init__
strict_of(cls) == cls \in {"SimpleNode", "TupleNode", "CallableNode"}

\* TypeVarNode built without type_var = True.
type_var_of_unset(cls) == FALSE

\* self.type_var, as each subclass passes it to BaseNode.__init__
type_var_of(cls) == cls = "TypeVarNode"

(***************************************************************************)
(* The trees the tree-builder constructs.  A tree lists the class of each  *)
(* node, the data_type handed to each SimpleNode, the add_child calls in   *)
(* the order the builder makes them, and the data offered to the root.     *)
(* Node 1 is the root.                                                     *)
(***************************************************************************)
int1 == IntV(1)
int2 == IntV(2)
int3 == IntV(3)
true == BoolV("True")
strA == StrV("a")
strX == StrV("x")

\* TypeVar -> Union{int, str}
TreeTypeVarUnion ==
    [cls       |-> <<"TypeVarNode", "UnionNode", "SimpleNode", "SimpleNode">>,
     data_type |-> <<"Any", "Any", "int", "str">>,
     edges     |-> << <<1, 2>>, <<2, 3>>, <<2, 4>> >>,
     inputs    |-> {int1, true, strA}]

\* a lone SimpleNode over int
TreeSimple ==
    [cls       |-> <<"SimpleNode">>,
     data_type |-> <<"int">>,
     edges     |-> << >>,
     inputs    |-> {int1, true, strA, None, ClassV("int"), ClassV("bool"),
                    ClassV("str"), ListV(<<int1>>)}]

\* List[int]: SimpleNode over list with one SimpleNode over int below it
TreeList ==
    [cls       |-> <<"SimpleNode", "SimpleNode">>,
     data_type |-> <<"list", "int">>,
     edges     |-> << <<1, 2>> >>,
     inputs    |-> {ListV(<< >>), ListV(<<int1>>), ListV(<<int1, int2>>),
                    ListV(<<int1, int2, int3>>), ListV(<<int1, strX, int3>>),
                    int1}]

\* Tuple[Union[int, str], int]
TreeTupleUnion ==
    [cls       |-> <<"TupleNode", "UnionNode", "SimpleNode", "SimpleNode", "SimpleNode">>,
     data_type |-> <<"Tuple", "Any", "int", "str", "int">>,
     edges     |-> << <<1, 2>>, <<2, 3>>, <<2, 4>>, <<1, 5>> >>,
     inputs    |-> {TupleV(<<int1, int2>>), TupleV(<<strA, int2>>),
                    TupleV(<<int1, strX>>), TupleV(<<int1>>),
                    ListV(<<int1, int2>>)}]

\* Tuple[T, int] with T = TypeVar('T', int, str)
TreeTupleTypeVar ==
    [cls       |-> <<"TupleNode", "TypeVarNode", "UnionNode", "SimpleNode",
                     "SimpleNode", "SimpleNode">>,
     data_type |-> <<"Tuple", "Any", "Any", "int", "str", "int">>,
     edges     |-> << <<1, 2>>, <<2, 3>>, <<3, 4>>, <<3, 5>>, <<1, 6>> >>,
     inputs    |-> {TupleV(<<int1, strX>>), TupleV(<<strA, int2>>),
                    TupleV(<<int1, int2>>)}]

\* TypeVar -> Tuple[int, str]
TreeTypeVarTuple ==
    [cls       |-> <<"TypeVarNode", "TupleNode", "SimpleNode", "SimpleNode">>,
     data_type |-> <<"Any", "Tuple", "int", "str">>,
     edges     |-> << <<1, 2>>, <<2, 3>>, <<2, 4>> >>,
     inputs    |-> {TupleV(<<int1, strA>>), TupleV(<<int1>>), int1}]

\* Union[int, object]
TreeUnion ==
    [cls       |-> <<"UnionNode", "SimpleNode", "SimpleNode">>,
     data_type |-> <<"Any", "int", "object">>,
     edges     |-> << <<1, 2>>, <<1, 3>> >>,
     inputs    |-> {int1, strA, None}]

\* Union[None, Union[int, None]]
TreeUnionNested ==
    [cls       |-> <<"UnionNode", "SimpleNode", "UnionNode", "SimpleNode", "SimpleNode">>,
     data_type |-> <<"Any", "NoneType", "Any", "int", "NoneType">>,
     edges     |-> << <<1, 2>>, <<1, 3>>, <<3, 4>>, <<3, 5>> >>,
     inputs    |-> {int1, None, strA}]

\* Callable[[int], int]
TreeCallable ==
    [cls       |-> <<"CallableNode", "SimpleNode", "SimpleNode">>,
     data_type |-> <<"Callable", "int", "int">>,
     edges     |-> << <<1, 2>>, <<1, 3>> >>,
     inputs    |-> {FuncV(<<ClassV("int")>>, "int"),
                    FuncV(<<ClassV("int")>>, "str"),
                    FuncV(<<ClassV("int"), ClassV("int")>>, "int"),
                    FuncV(<< >>, "int"),
                    FuncV(<<ClassV("int")>>, ""),
                    ClassV("int"),
                    int1}]

Trees == <<TreeTypeVarUnion, TreeSimple, TreeList, TreeTupleUnion, TreeTupleTypeVar,
           TreeTypeVarTuple, TreeUnion, TreeUnionNested, TreeCallable>>

\* Bound on the number of top-level operations (validate or reset) in a run.
MaxOps == 3

VARIABLES
    tree,               \* the tree under validation (an index into Trees)
    children,           \* self.children, per node: a sequence of nodes
    original_children,  \* self.original_children, per node
    data_out,           \* self.data_out, per node
    last_type,          \* self.last_type, per node (None or a type value)
    stack,              \* the suspended validate generators, innermost last
    history             \* the top-level operations so far: outcome, and the tree before

vars == <<tree, children, original_children, data_out, last_type, stack, history>>

Tree == Trees[tree]

Nodes == 1 .. Len(Tree.cls)
Root == 1

\* self.__class__, self.data_type, self.strict, self.type_var
cls(self) == Tree.cls[self]
data_type(self) == ClassV(Tree.data_type[self])
strict(self) == strict_of(cls(self))
type_var(self) == type_var_of(cls(self))

(***************************************************************************)
(* BaseNode.__init__, add_child, reset                                     *)
(***************************************************************************)
\* The fields of a heap of nodes built so far.
EmptyHeap(n) ==
    [children          |-> [k \in 1 .. n |-> << >>],
     original_children |-> [k \in 1 .. n |-> << >>]]

\* node.add_child(child)
add_child(heap, node, child) ==
    [children          |-> [heap.children EXCEPT ![node] = Append(@, child)],
     original_children |-> [heap.original_children EXCEPT ![node] = Append(@, child)]]

\* The builder's add_child calls, in order.
RECURSIVE Build(_, _)
Build(heap, edges) ==
    IF edges = << >> THEN heap
    ELSE Build(add_child(heap, Head(edges)[1], Head(edges)[2]), Tail(edges))

\* reset() that leaves self.children as they are.
reset_children_kept(self) == children[self]

\* [a for a in self.original_children]
reset_children(self) == original_children[self]

(***************************************************************************)
(* validate_data                                                           *)
(***************************************************************************)
\* The branch for class objects left out.
SimpleNode_validate_data_instances_only(self, data, sticky) ==
    issubclass(type(data), data_type(self))

SimpleNode_validate_data(self, data, sticky) ==
    IF isinstance(data, ClassV("type"))
    THEN issubclass(ClassV(data.v), data_type(self))
    ELSE issubclass(type(data), data_type(self))

\* The sticky check accepts an instance of a subclass of the recorded type.
UnionNode_validate_data_isinstance(self, data, sticky) ==
    IF sticky /\ last_type[self] # None
    THEN issubclass(type(data), last_type[self])
    ELSE TRUE

UnionNode_validate_data(self, data, sticky) ==
    IF sticky /\ last_type[self] # None
    THEN type(data) = last_type[self]
    ELSE TRUE

TypeVarNode_validate_data(self, data, sticky) == TRUE

TupleNode_validate_data(self, data, sticky) ==
    IF issubclass(type(data), ClassV("tuple"))
    THEN Len(data.items) = Len(children[self])
    ELSE FALSE

CallableNode_validate_data(self, data, sticky) == callable(data)

validate_data(self, data, sticky) ==
    CASE cls(self) = "SimpleNode"   -> SimpleNode_validate_data(self, data, sticky)
      [] cls(self) = "UnionNode"    -> UnionNode_validate_data(self, data, sticky)
      [] cls(self) = "TypeVarNode"  -> TypeVarNode_validate_data(self, data, sticky)
      [] cls(self) = "TupleNode"    -> TupleNode_validate_data(self, data, sticky)
      [] cls(self) = "CallableNode" -> CallableNode_validate_data(self, data, sticky)

(***************************************************************************)
(* map_data: the returned propagated_data, the children it leaves behind,  *)
(* and whether it raises.                                                  *)
(***************************************************************************)
\* s * k for a list s
RECURSIVE Repeat(_, _)
Repeat(s, k) == IF k <= 0 THEN << >> ELSE s \o Repeat(s, k - 1)

SimpleNode_map_data(self, data) ==
    IF isinstance(data, ClassV("list")) THEN data.items ELSE << >>

\* self.children *= len(data)
SimpleNode_map_data_children(self, data) ==
    IF isinstance(data, ClassV("list"))
    THEN Repeat(children[self], Len(data.items))
    ELSE children[self]

UnionNode_map_data(self, data) == [k \in 1 .. Len(children[self]) |-> data]

TypeVarNode_map_data(self, data) == <<data>>

TupleNode_map_data(self, data) == data.items

CallableNode_map_data(self, data) == Append(param_hints(data), ClassV(data.v))

map_data(self, data) ==
    CASE cls(self) = "SimpleNode"   -> SimpleNode_map_data(self, data)
      [] cls(self) = "UnionNode"    -> UnionNode_map_data(self, data)
      [] cls(self) = "TypeVarNode"  -> TypeVarNode_map_data(self, data)
      [] cls(self) = "TupleNode"    -> TupleNode_map_data(self, data)
      [] cls(self) = "CallableNode" -> CallableNode_map_data(self, data)

map_data_children(self, data) ==
    IF cls(self) = "SimpleNode" THEN SimpleNode_map_data_children(self, data)
    ELSE children[self]

\* func_hints['return'] raises KeyError when data has no return annotation
map_data_raises(self, data) ==
    cls(self) = "CallableNode" /\ ~has_return_hint(data)

(***************************************************************************)
(* reduce_data                                                             *)
(***************************************************************************)
SimpleNode_reduce_data(data, old_data) == old_data

RECURSIVE UnionNode_reduce_data(_, _)
UnionNode_reduce_data(data, old_data) ==
    IF data = << >> THEN None
    ELSE IF Head(data) # None THEN Head(data)
    ELSE UnionNode_reduce_data(Tail(data), old_data)

TypeVarNode_reduce_data(data, old_data) == data[1]

\* The children's outputs returned as the list they were collected in.
TupleNode_reduce_data_list(data, old_data) == ListV(data)

TupleNode_reduce_data(data, old_data) == TupleV(data)

CallableNode_reduce_data(data, old_data) == old_data

reduce_data(self, data, old_data) ==
    CASE cls(self) = "SimpleNode"   -> SimpleNode_reduce_data(data, old_data)
      [] cls(self) = "UnionNode"    -> UnionNode_reduce_data(data, old_data)
      [] cls(self) = "TypeVarNode"  -> TypeVarNode_reduce_data(data, old_data)
      [] cls(self) = "TupleNode"    -> TupleNode_reduce_data(data, old_data)
      [] cls(self) = "CallableNode" -> CallableNode_reduce_data(data, old_data)

(***************************************************************************)
(* BaseNode.validate, one action per stretch of the generator between two  *)
(* suspensions.  A frame is one validate generator:                        *)
(*   pc = "start"  created, not yet run (as handed to the driver)          *)
(*        "map"    validate_data passed, map_data not yet called           *)
(*        "loop"   at the head of the for loop, about to handle child i    *)
(*        "wait"   suspended at "yield child.validate(...)"                *)
(*        "done"   has yielded its final boolean, value                    *)
(*        "raise"  an exception is leaving the generator                   *)
(***************************************************************************)
Frame(node, data, force) ==
    [node |-> node, data |-> data, force |-> force, pc |-> "start", i |-> 1,
     results |-> << >>, propagated_data |-> << >>, value |-> FALSE]

top == stack[Len(stack)]
SetTop(f) == [stack EXCEPT ![Len(stack)] = f]

\* all(results), any(results)
all(results) == \A k \in 1 .. Len(results) : results[k]
any(results) == \E k \in 1 .. Len(results) : results[k]

\* all(results) if self.strict else any(results)
aggregate(self, results) == IF strict(self) THEN all(results) ELSE any(results)

\* results.index(True), counted from 1
index_True(results) ==
    CHOOSE k \in 1 .. Len(results) :
        results[k] /\ \A j \in 1 .. k - 1 : ~results[j]

\* [a.data_out for a in self.children]
returned_data(self) == [k \in 1 .. Len(children[self]) |-> data_out[children[self][k]]]

\* The committed child appended instead of replacing the list.
committed_children_appended(self, results, force) ==
    IF results # << >> /\ force
    THEN Append(children[self], children[self][index_True(results)])
    ELSE children[self]

\* The commitment keeps the last child that returned True.
committed_children_last(self, results, force) ==
    IF results # << >> /\ force
    THEN <<children[self][CHOOSE k \in DOMAIN results :
                /\ results[k]
                /\ \A j \in DOMAIN results : results[j] => j <= k]>>
    ELSE children[self]

\* self.children after "if results and force: self.children = [...]"
committed_children(self, results, force) ==
    IF results # << >> /\ force
    THEN <<children[self][index_True(results)]>>
    ELSE children[self]

\* The outcome of a finished top-level operation is written to its entry.
SetOutcome(o) == [history EXCEPT ![Len(history)].outcome = o]

\* root.validate(data, validator, force) is called and handed to the driver.
Call(data, force) ==
    /\ stack = << >>
    /\ Len(history) < MaxOps
    /\ stack' = <<Frame(Root, data, force)>>
    /\ history' = Append(history,
           [op |-> "validate", node |-> Root, data |-> data, force |-> force,
            outcome |-> "running",
            before |-> [children |-> children, last_type |-> last_type]])
    /\ UNCHANGED <<tree, children, original_children, data_out, last_type>>

\* A node whose type check fails clears itself before yielding False.
ValidateData_resets ==
    /\ stack # << >>
    /\ top.pc = "start"
    /\ IF validate_data(top.node, top.data, top.force)
       THEN /\ stack' = SetTop([top EXCEPT !.pc = "map"])
            /\ UNCHANGED <<children, data_out, last_type>>
       ELSE /\ stack' = SetTop([top EXCEPT !.pc = "done", !.value = FALSE])
            /\ data_out' = [data_out EXCEPT ![top.node] = None]
            /\ last_type' = [last_type EXCEPT ![top.node] = None]
            /\ children' = [children EXCEPT ![top.node] = original_children[top.node]]
    /\ UNCHANGED <<tree, original_children, history>>

\* lines 25-29
ValidateData ==
    /\ stack # << >>
    /\ top.pc = "start"
    /\ IF validate_data(top.node, top.data, top.force)
       THEN stack' = SetTop([top EXCEPT !.pc = "map"])
       ELSE stack' = SetTop([top EXCEPT !.pc = "done", !.value = FALSE])
    /\ UNCHANGED <<tree, children, original_children, data_out, last_type, history>>

\* lines 31-32
MapData ==
    /\ stack # << >>
    /\ top.pc = "map"
    /\ IF map_data_raises(top.node, top.data)
       THEN /\ stack' = SetTop([top EXCEPT !.pc = "raise"])
            /\ UNCHANGED children
       ELSE /\ stack' = SetTop([top EXCEPT !.pc = "loop",
                                           !.propagated_data = map_data(top.node, top.data)])
            /\ children' = [children EXCEPT ![top.node] = map_data_children(top.node, top.data)]
    /\ UNCHANGED <<tree, original_children, data_out, last_type, history>>

\* lines 38-39: the next child's generator is created and yielded;
\* propagated_data[i] raises IndexError past the end of propagated_data.
YieldChild ==
    /\ stack # << >>
    /\ top.pc = "loop"
    /\ top.i <= Len(children[top.node])
    /\ IF top.i > Len(top.propagated_data)
       THEN stack' = SetTop([top EXCEPT !.pc = "raise"])
       ELSE stack' = Append(SetTop([top EXCEPT !.pc = "wait"]),
                            Frame(children[top.node][top.i],
                                  top.propagated_data[top.i],
                                  type_var(top.node)))
    /\ UNCHANGED <<tree, children, original_children, data_out, last_type, history>>

\* The loop index advanced past the next child when a result comes back.
Resume_skips_child ==
    /\ Len(stack) >= 2
    /\ top.pc = "done"
    /\ LET parent == stack[Len(stack) - 1]
       IN stack' = Append(SubSeq(stack, 1, Len(stack) - 2),
                          [parent EXCEPT !.pc = "loop",
                                         !.i = @ + 2,
                                         !.results = Append(@, top.value)])
    /\ UNCHANGED <<tree, children, original_children, data_out, last_type, history>>

\* lines 39-40: the driver sends the child's final boolean to the parent.
Resume ==
    /\ Len(stack) >= 2
    /\ top.pc = "done"
    /\ LET parent == stack[Len(stack) - 1]
       IN stack' = Append(SubSeq(stack, 1, Len(stack) - 2),
                          [parent EXCEPT !.pc = "loop",
                                         !.i = @ + 1,
                                         !.results = Append(@, top.value)])
    /\ UNCHANGED <<tree, children, original_children, data_out, last_type, history>>

\* A strict node stops at the first child that returned False.
Finish_short_circuit ==
    /\ stack # << >>
    /\ top.pc = "loop"
    /\ \/ top.i > Len(children[top.node])
       \/ strict(top.node) /\ ~all(top.results)
    /\ IF ~aggregate(top.node, top.results)
       THEN /\ stack' = SetTop([top EXCEPT !.pc = "done", !.value = FALSE])
            /\ UNCHANGED <<children, data_out, last_type>>
       ELSE /\ data_out' = [data_out EXCEPT ![top.node] =
                               reduce_data(top.node, returned_data(top.node), top.data)]
            /\ children' = [children EXCEPT ![top.node] =
                               committed_children(top.node, top.results, top.force)]
            /\ last_type' = [last_type EXCEPT ![top.node] = type(top.data)]
            /\ stack' = SetTop([top EXCEPT !.pc = "done", !.value = TRUE])
    /\ UNCHANGED <<tree, original_children, history>>

\* lines 42-55
Finish ==
    /\ stack # << >>
    /\ top.pc = "loop"
    /\ top.i > Len(children[top.node])
    /\ IF ~aggregate(top.node, top.results)
       THEN /\ stack' = SetTop([top EXCEPT !.pc = "done", !.value = FALSE])
            /\ UNCHANGED <<children, data_out, last_type>>
       ELSE /\ data_out' = [data_out EXCEPT ![top.node] =
                               reduce_data(top.node, returned_data(top.node), top.data)]
            /\ children' = [children EXCEPT ![top.node] =
                               committed_children(top.node, top.results, top.force)]
            /\ last_type' = [last_type EXCEPT ![top.node] = type(top.data)]
            /\ stack' = SetTop([top EXCEPT !.pc = "done", !.value = TRUE])
    /\ UNCHANGED <<tree, original_children, history>>

\* The root generator's final boolean reaches the caller.
Return ==
    /\ Len(stack) = 1
    /\ top.pc = "done"
    /\ stack' = << >>
    /\ history' = SetOutcome(IF top.value THEN "True" ELSE "False")
    /\ UNCHANGED <<tree, children, original_children, data_out, last_type>>

\* An exception leaves every suspended generator and reaches the caller.
Raise ==
    /\ stack # << >>
    /\ top.pc = "raise"
    /\ stack' = << >>
    /\ history' = SetOutcome("raise")
    /\ UNCHANGED <<tree, children, original_children, data_out, last_type>>

\* reset() also resets the children of the node.
reset_with_children(self) ==
    /\ stack = << >>
    /\ Len(history) < MaxOps
    /\ LET cleared == {self} \cup {children[self][k] : k \in 1 .. Len(children[self])}
       IN /\ data_out' = [n \in Nodes |-> IF n \in cleared THEN None ELSE data_out[n]]
          /\ last_type' = [n \in Nodes |-> IF n \in cleared THEN None ELSE last_type[n]]
          /\ children' = [n \in Nodes |->
                            IF n \in cleared THEN original_children[n] ELSE children[n]]
    /\ history' = Append(history,
           [op |-> "reset", node |-> self, data |-> None, force |-> FALSE,
            outcome |-> "None",
            before |-> [children |-> children, last_type |-> last_type]])
    /\ UNCHANGED <<tree, original_children, stack>>

\* lines 82-85
reset(self) ==
    /\ stack = << >>
    /\ Len(history) < MaxOps
    /\ data_out' = [data_out EXCEPT ![self] = None]
    /\ last_type' = [last_type EXCEPT ![self] = None]
    /\ children' = [children EXCEPT ![self] = reset_children(self)]
    /\ history' = Append(history,
           [op |-> "reset", node |-> self, data |-> None, force |-> FALSE,
            outcome |-> "None",
            before |-> [children |-> children, last_type |-> last_type]])
    /\ UNCHANGED <<tree, original_children, stack>>

\* The state after the builder has constructed one of the trees.
Init ==
    /\ tree \in 1 .. Len(Trees)
    /\ LET built == Build(EmptyHeap(Len(Tree.cls)), Tree.edges)
       IN /\ children = built.children
          /\ original_children = built.original_children
    /\ data_out = [n \in Nodes |-> None]
    /\ last_type = [n \in Nodes |-> None]
    /\ stack = << >>
    /\ history = << >>

Next ==
    \/ \E data \in Tree.inputs, force \in BOOLEAN : Call(data, force)
    \/ ValidateData
    \/ MapData
    \/ YieldChild
    \/ Resume
    \/ Finish
    \/ Return
    \/ Raise
    \/ \E self \in Nodes : reset(self)

Spec == Init /\ [][Next]_vars

(***************************************************************************)
(* Well-formedness of the state.                                           *)
(***************************************************************************)
TypeOK ==
    /\ tree \in 1 .. Len(Trees)
    /\ DOMAIN children = Nodes
    /\ DOMAIN original_children = Nodes
    /\ \A n \in Nodes :
          /\ \A k \in 1 .. Len(children[n]) : children[n][k] \in Nodes
          /\ \A k \in 1 .. Len(original_children[n]) : original_children[n][k] \in Nodes
          /\ last_type[n] = None \/ last_type[n].t = "type"
    /\ Len(history) <= MaxOps
    /\ \A k \in 1 .. Len(history) :
          /\ history[k].op \in {"validate", "reset"}
          /\ history[k].outcome \in {"running", "True", "False", "raise", "None"}
    /\ \A k \in 1 .. Len(stack) :
          /\ stack[k].node \in Nodes
          /\ stack[k].pc \in {"start", "map", "loop", "wait", "done", "raise"}
          /\ k < Len(stack) => stack[k].pc = "wait"
    /\ stack # << >> => history # << >> /\ history[Len(history)].outcome = "running"

(***************************************************************************)
(* Vocabulary of the properties.                                           *)
(***************************************************************************)
\* The frames of the generators in flight.
Frames == {stack[k] : k \in 1 .. Len(stack)}

\* The last top-level operation.
last_op == history[Len(history)]

\* The step is a reset() of node n.
IsReset(n) ==
    /\ Len(history') = Len(history) + 1
    /\ history'[Len(history')].op = "reset"
    /\ history'[Len(history')].node = n

\* The step is the end of a validate of node n that yields b.
IsYield(n, b) ==
    /\ stack # << >>
    /\ top.node = n
    /\ top.pc \in {"start", "loop"}
    /\ Len(stack') = Len(stack)
    /\ stack'[Len(stack')].pc = "done"
    /\ stack'[Len(stack')].value = b

\* s is a subsequence of t: s is t with some elements left out.
RECURSIVE IsSubsequence(_, _)
IsSubsequence(s, t) ==
    IF s = << >> THEN TRUE
    ELSE IF t = << >> THEN FALSE
    ELSE IF Head(s) = Head(t) THEN IsSubsequence(Tail(s), Tail(t))
    ELSE IsSubsequence(s, Tail(t))

\* The class a SimpleNode checks for data: data itself when data is a class.
checked_class(data) == IF data.t = "type" THEN ClassV(data.v) ELSE type(data)

(***************************************************************************)
(* Stickiness of a generic parameter over an alternation.                  *)
(***************************************************************************)
\* The root is a TypeVarNode whose only child is a UnionNode of SimpleNodes.
TypeVarOverUnion ==
    /\ cls(Root) = "TypeVarNode"
    /\ Len(original_children[Root]) = 1
    /\ cls(original_children[Root][1]) = "UnionNode"
    /\ \A k \in 1 .. Len(original_children[original_children[Root][1]]) :
          cls(original_children[original_children[Root][1]][k]) = "SimpleNode"

\* The branches of the UnionNode below the root.
Branches == original_children[original_children[Root][1]]

\* d1 is of the type of one branch and d2 of the type of another, and the
\* two types are unrelated: neither datum is accepted by the other's branch.
OfUnrelatedBranches(d1, d2) ==
    \E a, b \in 1 .. Len(Branches) :
        /\ a # b
        /\ SimpleNode_validate_data(Branches[a], d1, FALSE)
        /\ SimpleNode_validate_data(Branches[b], d2, FALSE)
        /\ ~SimpleNode_validate_data(Branches[a], d2, FALSE)
        /\ ~SimpleNode_validate_data(Branches[b], d1, FALSE)

\* history[k], history[k + 1] validate d1 then d2 of unrelated branches,
\* and the first validate succeeded.
ValidateAThenB(k) ==
    /\ k + 1 <= Len(history)
    /\ history[k].op = "validate"
    /\ history[k].outcome = "True"
    /\ history[k + 1].op = "validate"
    /\ OfUnrelatedBranches(history[k].data, history[k + 1].data)

\* C1: for a TypeVarNode wrapping a UnionNode with class branches A and B of
\* unrelated types, a successful validate of data of type A followed, with
\* no reset() in between, by a validate of data of type B through the same
\* root makes the second validate yield False.
C1_Sticky ==
    TypeVarOverUnion =>
        \A k \in 1 .. Len(history) :
            ValidateAThenB(k) => history[k + 1].outcome \in {"running", "False"}

C1_Witness ==
    /\ TypeVarOverUnion
    /\ \E k \in 1 .. Len(history) :
          ValidateAThenB(k) /\ history[k + 1].outcome = "False"

\* history[k .. k + 2] validate d1 with success, reset() the root, validate
\* d2, with d1 and d2 of unrelated branches.
ValidateAResetThenB(k) ==
    /\ k + 2 <= Len(history)
    /\ history[k].op = "validate"
    /\ history[k].outcome = "True"
    /\ history[k + 1].op = "reset"
    /\ history[k + 1].node = Root
    /\ history[k + 2].op = "validate"
    /\ OfUnrelatedBranches(history[k].data, history[k + 2].data)

\* C2: for a TypeVarNode wrapping a UnionNode{A, B}, after a successful
\* validate of data of type A, reset() on the TypeVarNode and then a validate
\* of data of type B through the same instance makes the second validate
\* yield True.
C2_ResetReleases ==
    TypeVarOverUnion =>
        \A k \in 1 .. Len(history) :
            ValidateAResetThenB(k) => history[k + 2].outcome \in {"running", "True"}

(***************************************************************************)
(* SimpleNode                                                              *)
(***************************************************************************)
\* The SimpleNode generators that have yielded their final boolean.
SimpleDone == {f \in Frames : cls(f.node) = "SimpleNode" /\ f.pc = "done"}

\* C3 as stated: for every data d and every SimpleNode over type T, in any
\* state of its children, validate yields True if and only if d's runtime
\* type is T or a subtype of T.
C3_IffRuntimeType ==
    \A f \in SimpleDone :
        f.value <=> issubclass(type(f.data), data_type(f.node))

\* C3 as amended: validate of a SimpleNode over T yields True only if the
\* checked class (d itself when d is a class, else d's runtime type) is T or
\* a subtype of T, and for a SimpleNode without children it yields True
\* exactly then.
C3_IffCheckedClass ==
    \A f \in SimpleDone :
        /\ f.value => issubclass(checked_class(f.data), data_type(f.node))
        /\ children[f.node] = << >> =>
              (f.value <=> issubclass(checked_class(f.data), data_type(f.node)))

C3_Witness ==
    \E f \in SimpleDone :
        /\ f.value
        /\ f.data.t = "type"
        /\ children[f.node] = << >>
        /\ ~issubclass(type(f.data), data_type(f.node))

(***************************************************************************)
(* TupleNode and UnionNode outputs                                         *)
(***************************************************************************)
TupleDone == {f \in Frames : cls(f.node) = "TupleNode" /\ f.pc = "done"}
UnionDone == {f \in Frames : cls(f.node) = "UnionNode" /\ f.pc = "done"}

\* C4: for a TupleNode with n children, after any earlier validations on the
\* same tree without reset, validate(d) yields True only if d is a tuple of
\* exactly n elements each accepted by its positional child, and whenever it
\* yields True the node's data_out is a tuple of length n whose i-th element
\* equals d[i].
C4_TupleRoundTrip ==
    (\A k \in 1 .. Len(history) : history[k].op = "validate") =>
        \A f \in TupleDone :
            f.value =>
                /\ f.data.t = "tuple"
                /\ Len(f.data.items) = Len(f.results)
                /\ all(f.results)
                /\ data_out[f.node] = TupleV(f.data.items)

\* C5: for a UnionNode over branches {A, B} in declared order, if both A and
\* B succeed on d, validate(d) yields True and the node's data_out equals the
\* data_out of A.
C5_FirstBranchOutput ==
    \A f \in UnionDone :
        (Len(f.results) = 2 /\ f.results[1] /\ f.results[2]) =>
            /\ f.value
            /\ data_out[f.node] = data_out[children[f.node][1]]

(***************************************************************************)
(* reset                                                                   *)
(***************************************************************************)
C6_Step ==
    /\ original_children' = original_children
    /\ \A n \in Nodes :
          IsReset(n) =>
              /\ children'[n] = original_children'[n]
              /\ data_out'[n] = None
              /\ last_type'[n] = None
              /\ (history # << >> /\ last_op.op = "reset" /\ last_op.node = n) =>
                    /\ children' = children
                    /\ data_out' = data_out
                    /\ last_type' = last_type

\* C6: after any sequence of validate calls followed by reset() on a node,
\* that node's children equals original_children element for element,
\* data_out and last_type are None; original_children is never changed by
\* validate or reset; and a second reset() changes nothing.
C6_Reset == [][C6_Step]_vars

\* reset() has just restored a UnionNode that a successful validate through
\* a TypeVarNode had pruned to one branch.
C6_Witness ==
    /\ TypeVarOverUnion
    /\ Len(history) = 2
    /\ history[1].op = "validate" /\ history[1].outcome = "True"
    /\ history[2].op = "reset" /\ history[2].node = original_children[Root][1]
    /\ children[history[2].node] = original_children[history[2].node]
    /\ Len(children[history[2].node]) = 2

(***************************************************************************)
(* children against original_children                                      *)
(***************************************************************************)
\* The elements of a sequence.
Elements(s) == {s[k] : k \in 1 .. Len(s)}

\* C7 as stated: in every reachable state the node's children is a
\* subsequence of its original_children in original order.
C7_Subsequence ==
    \A n \in Nodes : IsSubsequence(children[n], original_children[n])

\* C7 as amended: every element of a node's children is an element of its
\* original_children, and for every node that is not a SimpleNode children
\* is a subsequence of original_children in original order (a SimpleNode
\* given a list repeats its children).
C7_SubsequenceUnlessExpanded ==
    \A n \in Nodes :
        /\ Elements(children[n]) \subseteq Elements(original_children[n])
        /\ cls(n) # "SimpleNode" => IsSubsequence(children[n], original_children[n])

\* A UnionNode pruned to its second branch.
C7_Witness ==
    \E n \in Nodes :
        /\ cls(n) = "UnionNode"
        /\ Len(original_children[n]) = 2
        /\ children[n] = <<original_children[n][2]>>

(***************************************************************************)
(* Expansion of a SimpleNode over a list, and decomposition lengths        *)
(***************************************************************************)
\* C8: for a SimpleNode with a single template child, every validate call
\* whose input is a list of length k leaves the node with exactly k
\* children for that invocation, for every sequence of such calls made on
\* the same instance without reset().
C8_ExpansionLength ==
    (\A k \in 1 .. Len(history) :
        history[k].op = "validate" /\ history[k].data.t = "list") =>
        \A f \in Frames :
            (/\ cls(f.node) = "SimpleNode"
             /\ Len(original_children[f.node]) = 1
             /\ f.data.t = "list"
             /\ f.pc \in {"loop", "wait"}) =>
                Len(children[f.node]) = Len(f.data.items)

\* C9: whenever a node's map_data returns a sequence whose length differs
\* from len(children), validate of that node aborts with an error; it never
\* goes on to aggregate and yield True or False.
C9_MismatchAborts ==
    \A f \in Frames :
        (f.pc = "loop" /\ f.i > Len(children[f.node])) =>
            Len(f.propagated_data) = Len(children[f.node])

(***************************************************************************)
(* data_out                                                                *)
(***************************************************************************)
\* C10 as stated: a node's data_out is None if the node has never been
\* validated or if its most recent validate yielded False.
C10_UnsetUnlessLastSucceeded ==
    /\ history = << >> => \A n \in Nodes : data_out[n] = None
    /\ \A f \in Frames : (f.pc = "done" /\ ~f.value) => data_out[f.node] = None

\* The first element of outs that is not None, None if there is none.
RECURSIVE FirstSet(_)
FirstSet(outs) ==
    IF outs = << >> THEN None
    ELSE IF Head(outs) # None THEN Head(outs) ELSE FirstSet(Tail(outs))

\* recombine of the node variants, applied to the children's outputs.
Recombined(n, outs, d) ==
    CASE cls(n) \in {"SimpleNode", "CallableNode"} -> d
      [] cls(n) = "UnionNode"                      -> FirstSet(outs)
      [] cls(n) = "TypeVarNode"                    -> outs[1]
      [] cls(n) = "TupleNode"                      -> [t |-> "tuple", v |-> "", items |-> outs]

C10_Step ==
    /\ history = << >> => \A n \in Nodes : data_out[n] = None
    /\ \A n \in Nodes :
          /\ IsYield(n, TRUE) =>
                data_out'[n] =
                    Recombined(n, [k \in 1 .. Len(children[n]) |-> data_out[children[n][k]]],
                               top.data)
          /\ IsReset(n) => data_out'[n] = None
          /\ data_out'[n] # data_out[n] => IsYield(n, TRUE) \/ IsReset(n)

\* C10 as amended: a node's data_out is None until its first successful
\* validate and again after reset(); a validate that yields True sets it to
\* recombine applied to the children's outputs at that moment; no other step
\* changes it, so a validate that yields False or raises leaves it as it was.
C10_SetOnlyBySuccess == [][C10_Step]_vars

\* A validate has just yielded False and the node still holds the output of
\* an earlier success.
C10_Witness ==
    \E f \in Frames : f.pc = "done" /\ ~f.value /\ data_out[f.node] # None

(***************************************************************************)
(* The suspension protocol                                                 *)
(***************************************************************************)
\* The step issues a request: the running generator yields a child generator.
IsRequest ==
    /\ stack # << >>
    /\ Len(stack') = Len(stack) + 1

\* The step ends the running generator with its final boolean, after its
\* type check has passed.
IsFinish ==
    /\ stack # << >>
    /\ top.pc = "loop"
    /\ Len(stack') = Len(stack)
    /\ stack'[Len(stack')].pc = "done"

C11_Step ==
    /\ IsRequest =>
          /\ top.pc = "loop"
          /\ stack'[Len(stack)].pc = "wait"
          /\ Len(top.results) + 1 <= Len(children[top.node])
          /\ stack'[Len(stack')].node = children[top.node][Len(top.results) + 1]
          /\ stack'[Len(stack')].data = top.propagated_data[Len(top.results) + 1]
          /\ stack'[Len(stack')].pc = "start"
    /\ \A n \in Nodes :
          (data_out'[n] # data_out[n] /\ ~IsReset(n)) =>
              /\ IsFinish
              /\ top.node = n
              /\ Len(top.results) = Len(children[n])

\* C11: within one validate call of a node, the requests for its children
\* are issued in child index order, each only after the previous child's
\* boolean was sent back (the k-th request follows k - 1 results), and
\* reduce_data and the assignment of data_out happen only after every child
\* of that call has been resumed with a result.
C11_OrderedNoPartial == [][C11_Step]_vars

\* A node with two or more children has recombined after all of them
\* returned.
C11_Witness ==
    \E f \in Frames :
        /\ f.pc = "done"
        /\ f.value
        /\ Len(f.results) >= 2
        /\ data_out[f.node] # None

\* The step ends the running generator with its final boolean because its
\* type check failed.
IsRejection ==
    /\ stack # << >>
    /\ top.pc = "start"
    /\ Len(stack') = Len(stack)
    /\ stack'[Len(stack')].pc = "done"

C12_Step ==
    /\ \A k \in 1 .. Len(stack') : stack'[k].pc # "raise"
    /\ (Len(history') = Len(history) /\ last_op.outcome = "running") =>
          history'[Len(history')].outcome # "raise"
    /\ IsRejection =>
          /\ ~stack'[Len(stack')].value
          /\ top.results = << >>
    /\ IsFinish => Len(top.results) = Len(children[top.node])
    /\ (stack # << >> /\ top.pc = "done") => Len(stack') = Len(stack) - 1

\* C12: every validate call yields zero or more child requests followed by
\* exactly one final boolean, after which the generator is exhausted: it
\* never ends with an exception instead, no request is issued when
\* validate_data fails, one request per current child is issued otherwise,
\* and nothing follows the final boolean.
C12_ProtocolShape == [][C12_Step]_vars

\* The running generator has passed its type check and has a child that has
\* not been validated in this call.
ChildrenRemain ==
    /\ stack # << >>
    /\ top.pc = "loop"
    /\ top.i <= Len(children[top.node])

C13_Step ==
    /\ ChildrenRemain =>
          ~(Len(stack') = Len(stack) /\ stack'[Len(stack')].pc = "done")
    /\ IsFinish =>
          \A k \in 1 .. Len(children[top.node]) : k \in DOMAIN top.results

\* C13: no short-circuit: once validate_data has passed for a node, the call
\* does not yield its final boolean while a current child is still to be
\* validated, whatever the earlier children returned (False under a strict
\* node, True under a non-strict one): the final boolean is computed from
\* one result per current child.
C13_NoShortCircuit == [][C13_Step]_vars

\* A strict node over three children has validated the third after the second
\* returned False, and fails.
C13_Witness ==
    \E f \in Frames :
        /\ strict(f.node)
        /\ f.pc = "done"
        /\ ~f.value
        /\ Len(f.results) = 3
        /\ ~f.results[2]
        /\ f.results[3]

\* A non-strict node has validated its second child after the first returned
\* True.
C13_WitnessNonStrict ==
    \E f \in Frames :
        /\ ~strict(f.node)
        /\ f.pc = "done"
        /\ Len(f.results) = 2
        /\ f.results[1]

(***************************************************************************)
(* Commitment                                                              *)
(***************************************************************************)
\* Every top-level validate so far was called with force = False.
RootNeverForced == \A k \in DOMAIN history : ~history[k].force

\* The step is the end of a successful validate of n called with force = True
\* that had at least one child result: line 52 assigns self.children.
IsPrune(n) ==
    /\ IsFinish
    /\ top.node = n
    /\ stack'[Len(stack')].value
    /\ top.force
    /\ top.results # << >>

\* The step is the expansion of the SimpleNode n over an empty list.
IsEmptyExpansion(n) ==
    /\ stack # << >>
    /\ top.node = n
    /\ top.pc = "map"
    /\ cls(n) = "SimpleNode"
    /\ top.data = ListV(<< >>)
    /\ children'[n] = << >>

\* What the claim says of pruning itself.
C14_PruneStep(n) ==
    /\ (IsFinish /\ children'[n] # children[n]) => IsPrune(n)
    /\ IsPrune(n) =>
          /\ children'[n] = <<children[n][index_True(top.results)]>>
          /\ RootNeverForced =>
                /\ Len(stack) >= 2
                /\ cls(stack[Len(stack) - 1].node) = "TypeVarNode"

C14_NeverShrinkStep ==
    \A n \in Nodes :
        ~IsReset(n) =>
            /\ C14_PruneStep(n)
            /\ Len(children'[n]) < Len(children[n]) => IsPrune(n)

\* C14 as stated: children are pruned only at the end of a validate that
\* succeeded with force = True and at least one child result, and are then
\* exactly the first child whose result was True; with the root validated
\* with force = False only direct children of a TypeVarNode are pruned, and
\* the children of every other node never shrink.
C14_CommitScope == [][C14_NeverShrinkStep]_vars

C14_AmendedStep ==
    \A n \in Nodes :
        ~IsReset(n) =>
            /\ C14_PruneStep(n)
            /\ Len(children'[n]) < Len(children[n]) =>
                  IsPrune(n) \/ IsEmptyExpansion(n)

\* C14 amended: as above, except that the children of a SimpleNode are also
\* emptied when it validates an empty list.
C14_CommitScopeOrEmptyList == [][C14_AmendedStep]_vars

\* A UnionNode below a TypeVarNode was pruned to the second of its branches
\* in a call whose root was not forced.
C14_Witness ==
    /\ TypeVarOverUnion
    /\ RootNeverForced
    /\ \E u \in Nodes :
          /\ cls(u) = "UnionNode"
          /\ Len(original_children[u]) = 2
          /\ children[u] = <<original_children[u][2]>>

\* u is a UnionNode below the TypeVarNode p.
UnionBelow(p, u) ==
    /\ cls(p) = "TypeVarNode"
    /\ cls(u) = "UnionNode"
    /\ original_children[p] = <<u>>

\* The UnionNode u below a TypeVarNode has committed: it recorded the type
\* it matched and was pruned to one of its several branches.
Committed(u) ==
    /\ \E p \in Nodes : UnionBelow(p, u)
    /\ last_type[u] # None
    /\ Len(original_children[u]) >= 2
    /\ Len(children[u]) = 1

C15_Step ==
    \A u \in Nodes :
        (Committed(u) /\ ~IsReset(u)) =>
            /\ children'[u] = children[u]
            /\ last_type'[u] = last_type[u]
            /\ \A p \in Nodes :
                  (UnionBelow(p, u) /\ IsYield(p, TRUE)) =>
                      type(top.data) = last_type[u]

\* C15: once a UnionNode below a TypeVarNode has committed (last_type = T,
\* children pruned to one branch), then until reset() is called on that
\* UnionNode every validate through the TypeVarNode yields True only for
\* data whose runtime type is exactly T, and the UnionNode's children and
\* last_type stay unchanged across those calls, successful or not.
C15_BindingPersists == [][C15_Step]_vars

\* Committed to int by validate(1); a later validate(True), whose type bool
\* is a subtype of int, was rejected and the commitment is still in place.
C15_Witness ==
    /\ TypeVarOverUnion
    /\ Len(history) >= 2
    /\ history[1].op = "validate"
    /\ history[1].data = int1
    /\ history[1].outcome = "True"
    /\ history[2].op = "validate"
    /\ history[2].data = true
    /\ history[2].outcome = "False"
    /\ Committed(children[Root][1])
    /\ last_type[children[Root][1]] = ClassV("int")

(***************************************************************************)
(* Frame properties                                                        *)
(***************************************************************************)
\* validate_data of the running generator returns False.
CheckFails ==
    /\ stack # << >>
    /\ top.pc = "start"
    /\ ~validate_data(top.node, top.data, top.force)

C16_Step ==
    CheckFails =>
        /\ stack' = SetTop([top EXCEPT !.pc = "done", !.value = FALSE])
        /\ stack'[Len(stack')].results = << >>
        /\ stack'[Len(stack')].propagated_data = << >>
        /\ children' = children
        /\ data_out' = data_out
        /\ last_type' = last_type

\* C16: when validate_data returns False, validate yields False without
\* issuing any child request and without running map_data, and the node's
\* children, data_out and last_type and the state of every other node of
\* the tree are what they were before the call.
C16_RejectionKeepsState == [][C16_Step]_vars

\* A node that holds a recorded type and an output from an earlier call has
\* rejected its data.
C16_Witness ==
    \E f \in Frames :
        /\ f.pc = "done"
        /\ ~f.value
        /\ f.results = << >>
        /\ ~validate_data(f.node, f.data, f.force)
        /\ last_type[f.node] # None
        /\ data_out[f.node] # None

(***************************************************************************)
(* Repeated validation on one tree                                         *)
(***************************************************************************)
NoReset == \A k \in DOMAIN history : history[k].op = "validate"

\* The first child, in child order, whose validate returned True in the call
\* of frame f; under force the node has already been pruned to that child.
first_succeeded(f) ==
    IF Len(children[f.node]) = Len(f.results)
    THEN children[f.node][index_True(f.results)]
    ELSE children[f.node][1]

\* C17: after any sequence of earlier validations on the same UnionNode
\* without reset, whenever validate(d) yields True the node's data_out is the
\* output of the first child, in child order, whose validation of d succeeded
\* in this call, never a value left by a child in an earlier call, also when
\* d is None.
C17_FreshOutput ==
    NoReset =>
        \A f \in UnionDone :
            f.value => data_out[f.node] = data_out[first_succeeded(f)]

\* The k-th and the next operation are the same validate, with nothing in
\* between.
Repeated(k) ==
    /\ k + 1 <= Len(history)
    /\ history[k].op = "validate"
    /\ history[k + 1].op = "validate"
    /\ history[k + 1].data = history[k].data
    /\ history[k + 1].force = history[k].force

\* C18: if validate(d) from the root yields True, an immediately following
\* validate(d) on the same tree, with no reset() in between, also yields True
\* and does not raise.
C18_RepeatStable ==
    \A k \in DOMAIN history :
        (Repeated(k) /\ history[k].outcome = "True") =>
            history[k + 1].outcome \in {"running", "True"}

\* The last operation is a top-level validate that has yielded False.
FailedCall ==
    /\ history # << >>
    /\ last_op.op = "validate"
    /\ last_op.outcome = "False"

\* C19: if a top-level validate yields False, the children and last_type of
\* the nodes are the same as before the call, so a failed call never commits
\* a generic parameter. Stated of the nodes that hold the binding of a
\* generic parameter, the UnionNodes below a TypeVarNode; last_op.before is
\* the state of the tree when the call was made.
C19_FailedCallDoesNotBind ==
    FailedCall =>
        \A p, u \in Nodes :
            UnionBelow(p, u) =>
                /\ children[u] = last_op.before.children[u]
                /\ last_type[u] = last_op.before.last_type[u]

C20_Step ==
    \A n \in Nodes :
        IsReset(n) =>
            \A m \in Nodes \ {n} :
                /\ children'[m] = children[m]
                /\ data_out'[m] = data_out[m]
                /\ last_type'[m] = last_type[m]

\* C20: reset() is shallow: calling reset() on a node changes only that
\* node's own children, data_out and last_type; those of every descendant,
\* a committed UnionNode below a TypeVarNode included, are left unchanged.
C20_ResetShallow == [][C20_Step]_vars

\* The TypeVarNode at the root was reset and the UnionNode below it is still
\* committed, with the output of the call that committed it.
C20_Witness ==
    /\ TypeVarOverUnion
    /\ history # << >>
    /\ last_op.op = "reset"
    /\ last_op.node = Root
    /\ data_out[Root] = None
    /\ Committed(children[Root][1])
    /\ data_out[children[Root][1]] # None

====
